---- MODULE Spec2Model ----
(***************************************************************************)
(* Tsunami evacuation simulation backend: the congestion manager, the      *)
(* hazard model, the evacuee state machine and the per-tick orchestrator.  *)
(*                                                                         *)
(* Lengths are integers in decimetres of a local planar frame (the code    *)
(* works on lon/lat degrees and haversine metres); fractions (segment      *)
(* progress, speed multipliers, interpolated positions) are exact          *)
(* rationals where the code uses floats.  A position is <<xn, yn, d>>,     *)
(* the point (xn/d, yn/d).                                                 *)
(***************************************************************************)
EXTENDS Integers, Sequences, FiniteSets, TLC

VARIABLES
    SIM_MODEL,      \* app.py: "None" or "model" (the global model holder)
    world,          \* the geo data the model was built from (0: none)
    person_agents,  \* model.person_agents: sequence of evacuee records
    evac_agents,    \* model.evac_agents: sequence of shelter records
    segment_data,   \* CongestionManager.segment_data: key -> [capacity, density]
    hazard,         \* TsunamiHazard object
    sim_time,       \* model.sim_time
    pc,             \* position inside EvacuationModel.step
    activated,      \* evacuees the scheduler has activated in this tick
    checking,       \* evacuee whose step is at its hazard check (0: none)
    tick_start_ok,  \* whether densities matched occupancy when the tick began
    last_update,    \* the time last passed to TsunamiHazard.update
    frozen,         \* evacuees that were in a terminal state when the tick began
    ret             \* the last return value of a queried function

vars == <<SIM_MODEL, world, person_agents, evac_agents, segment_data, hazard,
          sim_time, pc, activated, checking, tick_start_ok, last_update,
          frozen, ret>>

(***************************************************************************)
(* Bounds of the model                                                     *)
(***************************************************************************)
MaxTime == 7        \* ticks explored per run
MaxDensity == 3     \* densities explored in the congestion manager alone
MaxCapacity == 2    \* capacities registered in the congestion manager alone
MaxLimit == 3       \* population limits passed to start
MaxQueryTime == 14  \* times passed to the hazard model alone

(***************************************************************************)
(* Program constants                                                       *)
(***************************************************************************)
NoId == 0                   \* evac_center_id = None
default_capacity == 8
strength_num == 8           \* congestion_strength = 0.8 = 8/10
strength_den == 10
speed == 14                 \* 1.4 m/s
propagation_speed == 150    \* 15.0 m/s
arrive_threshold == 10      \* 1.0 m
step_time_seconds == 1
reroute_threshold_s == 30

(***************************************************************************)
(* Rational arithmetic                                                     *)
(***************************************************************************)
Abs(x) == IF x < 0 THEN -x ELSE x

RECURSIVE Gcd(_, _)
Gcd(a, b) == IF b = 0 THEN a ELSE Gcd(b, a % b)

Norm(r) ==
    LET g == Gcd(Abs(r[1]), r[2]) IN
    IF g = 0 THEN r ELSE <<r[1] \div g, r[2] \div g>>

RAdd(r, s) == Norm(<<r[1] * s[2] + s[1] * r[2], r[2] * s[2]>>)
RGeqOne(r) == r[1] >= r[2]
RLess(r, s) == r[1] * s[2] < s[1] * r[2]
RMinusOne(r) == Norm(<<r[1] - r[2], r[2]>>)

PosOf(c) == <<c[1], c[2], 1>>

NormPos(q) ==
    LET g == Gcd(Gcd(Abs(q[1]), Abs(q[2])), q[3]) IN
    IF g = 0 THEN q ELSE <<q[1] \div g, q[2] \div g, q[3] \div g>>

\* squared planar distance between position q and coordinate c, times q[3]^2
DistSqNum(q, c) == (q[1] - c[1] * q[3]) * (q[1] - c[1] * q[3])
                 + (q[2] - c[2] * q[3]) * (q[2] - c[2] * q[3])

interpolate(a, b, t) ==
    NormPos(<<a[1] * t[2] + (b[1] - a[1]) * t[1],
              a[2] * t[2] + (b[2] - a[2]) * t[1],
              t[2]>>)

(***************************************************************************)
(* CongestionManager (simulation/congestion.py)                            *)
(***************************************************************************)
\* key = tuple(sorted([a, b]))
SegKey(a, b) == IF a <= b THEN <<a, b>> ELSE <<b, a>>

\* capacity 0 stands for None; "capacity or default" also maps 0 to the default
register_segment(sd, a, b, capacity) ==
    LET key == SegKey(a, b) IN
    IF key \in DOMAIN sd THEN sd
    ELSE sd @@ (key :> [capacity |-> IF capacity = 0 THEN default_capacity
                                     ELSE capacity,
                        density |-> 0])

\* enter_segment creating the entry of a segment it does not know
enter_segment_registering(sd, a, b) ==
    LET key == SegKey(a, b) IN
    IF key \notin DOMAIN sd
    THEN sd @@ (key :> [capacity |-> default_capacity, density |-> 1])
    ELSE [sd EXCEPT ![key].density = @ + 1]

enter_segment(sd, a, b) ==
    LET key == SegKey(a, b) IN
    IF key \notin DOMAIN sd THEN sd
    ELSE [sd EXCEPT ![key].density = @ + 1]

\* leave_segment without the max(0, ...) clamp
leave_segment_unclamped(sd, a, b) ==
    LET key == SegKey(a, b) IN
    IF key \notin DOMAIN sd THEN sd
    ELSE [sd EXCEPT ![key].density = @ - 1]

leave_segment(sd, a, b) ==
    LET key == SegKey(a, b) IN
    IF key \notin DOMAIN sd THEN sd
    ELSE [sd EXCEPT ![key].density = IF @ - 1 > 0 THEN @ - 1 ELSE 0]

\* get_speed_multiplier taking the whole density as the overflow
get_speed_multiplier_no_capacity(sd, a, b) ==
    LET key == SegKey(a, b) IN
    IF key \notin DOMAIN sd THEN <<1, 1>>
    ELSE LET cap == sd[key].capacity
             dens == sd[key].density
         IN IF dens <= cap THEN <<1, 1>>
            ELSE <<strength_den, strength_den + strength_num * dens>>

\* the multiplier as a fraction <<numerator, denominator>>:
\* 1.0 / (1.0 + 0.8 * overflow) = strength_den / (strength_den + strength_num * overflow)
get_speed_multiplier(sd, a, b) ==
    LET key == SegKey(a, b) IN
    IF key \notin DOMAIN sd THEN <<1, 1>>
    ELSE LET cap == sd[key].capacity
             dens == sd[key].density
         IN IF dens <= cap THEN <<1, 1>>
            ELSE LET overflow == dens - cap
                 IN <<strength_den, strength_den + strength_num * overflow>>

get_density(sd, a, b) ==
    LET key == SegKey(a, b) IN
    IF key \notin DOMAIN sd THEN 0 ELSE sd[key].density

EmptySegmentData == [k \in {} |-> [capacity |-> 0, density |-> 0]]

(***************************************************************************)
(* TsunamiHazard (simulation/hazard.py)                                    *)
(* A region of the precomputed mode is a closed rectangle                  *)
(* [x1, x2, y1, y2] with its arrival time.  An arrival time is a record:   *)
(* unknown, or the time n/d, or (dynamic mode) the time sqrt(n)/d.         *)
(***************************************************************************)
Unknown == [known |-> FALSE, root |-> FALSE, n |-> 0, d |-> 1]

\* TsunamiHazard.__init__: an inundation file wins over source points, even
\* when it holds no region; source points need a non-zero speed
TsunamiHazard(has_file, regions, source_points, prop_speed) ==
    LET none == [has_precomputed |-> FALSE, polygons |-> <<>>,
                 has_dynamic |-> FALSE, source_points |-> <<>>,
                 prop_speed |-> 0, current_time |-> 0]
    IN IF has_file
       THEN [none EXCEPT !.polygons = regions,
                         !.has_precomputed = Len(regions) > 0]
       ELSE IF Len(source_points) > 0 /\ prop_speed # 0
       THEN [none EXCEPT !.source_points = source_points,
                         !.prop_speed = prop_speed,
                         !.has_dynamic = Len(source_points) > 0 /\ prop_speed > 0]
       ELSE none

update(hz, current_time_seconds) == [hz EXCEPT !.current_time = current_time_seconds]

Touches(region, q) ==
    /\ region.x1 * q[3] <= q[1] /\ q[1] <= region.x2 * q[3]
    /\ region.y1 * q[3] <= q[2] /\ q[2] <= region.y2 * q[3]

RECURSIVE MinDistSq(_, _, _)
MinDistSq(sources, q, i) ==
    IF i = Len(sources) THEN DistSqNum(q, sources[i])
    ELSE LET rest == MinDistSq(sources, q, i + 1)
             here == DistSqNum(q, sources[i])
         IN IF here <= rest THEN here ELSE rest

\* get_time_to_inundation answering "at t0" when there is no hazard data
get_time_to_inundation_no_data_zero(hz, q) ==
    IF hz.has_precomputed
    THEN LET hits == {i \in 1..Len(hz.polygons) : Touches(hz.polygons[i].region, q)}
         IN IF hits = {} THEN Unknown
            ELSE LET first == CHOOSE i \in hits : \A j \in hits : i <= j
                 IN [known |-> TRUE, root |-> FALSE,
                     n |-> hz.polygons[first].arrival_time, d |-> 1]
    ELSE IF hz.has_dynamic
    THEN [known |-> TRUE, root |-> TRUE,
          n |-> MinDistSq(hz.source_points, q, 1),
          d |-> q[3] * hz.prop_speed]
    ELSE [known |-> TRUE, root |-> FALSE, n |-> 0, d |-> 1]

get_time_to_inundation(hz, q) ==
    IF hz.has_precomputed
    THEN LET hits == {i \in 1..Len(hz.polygons) : Touches(hz.polygons[i].region, q)}
         IN IF hits = {} THEN Unknown
            ELSE LET first == CHOOSE i \in hits : \A j \in hits : i <= j
                 IN [known |-> TRUE, root |-> FALSE,
                     n |-> hz.polygons[first].arrival_time, d |-> 1]
    ELSE IF hz.has_dynamic
    THEN [known |-> TRUE, root |-> TRUE,
          n |-> MinDistSq(hz.source_points, q, 1),
          d |-> q[3] * hz.prop_speed]
    ELSE Unknown

\* arrival <= t, for a known arrival and an integer t >= 0
\* (a square that would leave the 32-bit range exceeds every n in range)
ArrivalLeq(arrival, t) ==
    IF arrival.root
    THEN t * arrival.d > 46340 \/ arrival.n <= (t * arrival.d) * (t * arrival.d)
    ELSE arrival.n <= t * arrival.d

\* is_inundated comparing with < instead of <=
is_inundated_strict(hz, q, time) ==
    LET t == IF time = -1 THEN hz.current_time ELSE time
        arrival == get_time_to_inundation(hz, q)
    IN IF ~arrival.known THEN FALSE
       ELSE IF arrival.root
       THEN t * arrival.d > 46340 \/ arrival.n < (t * arrival.d) * (t * arrival.d)
       ELSE arrival.n < t * arrival.d

\* time = -1 stands for None (use the model's current time)
is_inundated(hz, q, time) ==
    LET t == IF time = -1 THEN hz.current_time ELSE time
        arrival == get_time_to_inundation(hz, q)
    IN IF ~arrival.known THEN FALSE ELSE ArrivalLeq(arrival, t)

(***************************************************************************)
(* Geo data sets (roads.geojson, buildings.geojson, evac.geojson and the   *)
(* position of the coast relative to them).  Road edges are axis-aligned,  *)
(* so that their lengths are integers.  Nodes are numbered in the order    *)
(* build_road_graph inserts them.                                          *)
(*   1: a corridor with one shelter of capacity 1, the coast far away      *)
(*   2: a short road next to the coast                                     *)
(*   3: a corridor with a small shelter at one end and a larger one at     *)
(*      the other, the coast far away                                      *)
(*   4: a zero-length road segment, and a road not connected to the rest   *)
(*   5: no shelter at all                                                  *)
(*   6: a zero-length road segment next to the coast                       *)
(*   7: a short road segment followed by a long one, the coast far away    *)
(*   8: no road at all                                                     *)
(*   9: a corridor of a deployment without hazard data (no source points)  *)
(*  10: a long road away from the nearby coast, reached from a side road,  *)
(*      and a shelter that accepts nobody                                  *)
(*  11: nine evacuees of one building on a segment of capacity 8, no       *)
(*      hazard data                                                        *)
(*  12: a road network with a cycle                                        *)
(*  13: one segment of 5.6 m, the water arriving everywhere on it at       *)
(*      about 5.5 s                                                        *)
(***************************************************************************)
Worlds == 1..10

\* the road, building, shelter and source data of the worlds, by number
GeoData ==
    <<
     [coord |-> <<<<0, 0>>, <<28, 0>>, <<42, 0>>, <<70, 0>>>>,
      edges |-> {<<1, 2>>, <<2, 3>>, <<3, 4>>},
      buildings |-> <<[loc |-> <<28, 0>>, pop |-> 1],
                      [loc |-> <<0, 0>>, pop |-> 2]>>,
      shelters |-> <<[loc |-> <<70, 0>>, capacity |-> 1]>>,
      sources |-> <<<<-6600, 0>>>>],
     [coord |-> <<<<0, 0>>, <<7, 0>>, <<7, 280>>, <<7, 308>>>>,
      edges |-> {<<1, 2>>, <<2, 3>>, <<3, 4>>},
      buildings |-> <<[loc |-> <<0, 0>>, pop |-> 1],
                      [loc |-> <<7, 280>>, pop |-> 1]>>,
      shelters |-> <<[loc |-> <<7, 0>>, capacity |-> 2],
                     [loc |-> <<7, 308>>, capacity |-> 0]>>,
      sources |-> <<<<-100, 0>>, <<-400, 0>>>>],
     [coord |-> <<<<0, 0>>, <<14, 0>>, <<28, 0>>, <<56, 0>>>>,
      edges |-> {<<1, 2>>, <<2, 3>>, <<3, 4>>},
      buildings |-> <<[loc |-> <<14, 0>>, pop |-> 1],
                      [loc |-> <<28, 0>>, pop |-> 1],
                      [loc |-> <<28, 0>>, pop |-> 1]>>,
      shelters |-> <<[loc |-> <<0, 0>>, capacity |-> 1],
                     [loc |-> <<56, 0>>, capacity |-> 1]>>,
      sources |-> <<<<0, 6600>>>>],
     [coord |-> <<<<0, 0>>, <<0, 0>>, <<21, 0>>, <<500, 0>>, <<514, 0>>>>,
      edges |-> {<<1, 2>>, <<2, 3>>, <<4, 5>>},
      buildings |-> <<[loc |-> <<0, 0>>, pop |-> 1],
                      [loc |-> <<500, 0>>, pop |-> 1]>>,
      shelters |-> <<[loc |-> <<21, 0>>, capacity |-> 2]>>,
      sources |-> <<<<0, -6600>>>>],
     [coord |-> <<<<0, 0>>, <<14, 0>>>>,
      edges |-> {<<1, 2>>},
      buildings |-> <<[loc |-> <<0, 0>>, pop |-> 1]>>,
      shelters |-> <<>>,
      sources |-> <<<<0, -6600>>>>],
     [coord |-> <<<<0, 0>>, <<0, 0>>, <<21, 0>>>>,
      edges |-> {<<1, 2>>, <<2, 3>>},
      buildings |-> <<[loc |-> <<0, 0>>, pop |-> 1]>>,
      shelters |-> <<[loc |-> <<21, 0>>, capacity |-> 2]>>,
      sources |-> <<<<0, -250>>>>],
     [coord |-> <<<<0, 0>>, <<7, 0>>, <<287, 0>>>>,
      edges |-> {<<1, 2>>, <<2, 3>>},
      buildings |-> <<[loc |-> <<0, 0>>, pop |-> 1]>>,
      shelters |-> <<[loc |-> <<287, 0>>, capacity |-> 2]>>,
      sources |-> <<<<0, -6600>>>>],
     [coord |-> <<>>,
      edges |-> {},
      buildings |-> <<[loc |-> <<0, 0>>, pop |-> 1]>>,
      shelters |-> <<[loc |-> <<14, 0>>, capacity |-> 1]>>,
      sources |-> <<<<0, -6600>>>>],
     [coord |-> <<<<0, 0>>, <<14, 0>>, <<42, 0>>>>,
      edges |-> {<<1, 2>>, <<2, 3>>},
      buildings |-> <<[loc |-> <<0, 0>>, pop |-> 2]>>,
      shelters |-> <<[loc |-> <<42, 0>>, capacity |-> 1]>>,
      sources |-> <<>>],
     [coord |-> <<<<0, 0>>, <<14, 0>>, <<714, 0>>, <<14, 10>>>>,
      edges |-> {<<1, 2>>, <<2, 3>>, <<2, 4>>},
      buildings |-> <<[loc |-> <<0, 0>>, pop |-> 1],
                      [loc |-> <<14, 10>>, pop |-> 2]>>,
      shelters |-> <<[loc |-> <<714, 0>>, capacity |-> 0]>>,
      sources |-> <<<<-200, 0>>>>],
     [coord |-> <<<<0, 0>>, <<14, 0>>, <<28, 0>>>>,
      edges |-> {<<1, 2>>, <<2, 3>>},
      buildings |-> <<[loc |-> <<0, 0>>, pop |-> 9]>>,
      shelters |-> <<[loc |-> <<28, 0>>, capacity |-> 9]>>,
      sources |-> <<>>],
     [coord |-> <<<<0, 0>>, <<14, 0>>, <<28, 0>>, <<0, 14>>, <<28, 14>>>>,
      edges |-> {<<1, 2>>, <<2, 3>>, <<1, 4>>, <<4, 5>>, <<3, 5>>},
      buildings |-> <<[loc |-> <<0, 0>>, pop |-> 1]>>,
      shelters |-> <<[loc |-> <<28, 0>>, capacity |-> 1]>>,
      sources |-> <<>>],
     [coord |-> <<<<0, 0>>, <<56, 0>>>>,
      edges |-> {<<1, 2>>},
      buildings |-> <<[loc |-> <<0, 0>>, pop |-> 1]>>,
      shelters |-> <<[loc |-> <<56, 0>>, capacity |-> 1]>>,
      sources |-> <<<<28, -825>>>>]
    >>

Geo(w) == GeoData[w]

Coord(w, n) == Geo(w).coord[n]
Nodes(w) == 1..Len(Geo(w).coord)

(***************************************************************************)
(* Road graph and routing (utils/graph_builder.py, simulation/routing.py)  *)
(***************************************************************************)
\* edge weight: planar distance of the endpoints (exact on axis-aligned edges)
distance(p1, p2) == Abs(p1[1] - p2[1]) + Abs(p1[2] - p2[2])

Adjacent(w, a, b) == SegKey(a, b) \in Geo(w).edges /\ a # b

\* the node minimising the squared distance to q; the first one on ties
nearest_node(w, q) ==
    IF Nodes(w) = {} THEN 0
    ELSE CHOOSE n \in Nodes(w) :
            \A m \in Nodes(w) :
               \/ DistSqNum(q, Coord(w, n)) < DistSqNum(q, Coord(w, m))
               \/ DistSqNum(q, Coord(w, n)) = DistSqNum(q, Coord(w, m)) /\ n <= m

\* simple paths from the end of `path` to `target`
RECURSIVE SimplePaths(_, _, _)
SimplePaths(w, path, target) ==
    LET last == path[Len(path)] IN
    IF last = target THEN {path}
    ELSE UNION {SimplePaths(w, Append(path, n), target) :
                  n \in {m \in Nodes(w) :
                           /\ Adjacent(w, last, m)
                           /\ \A i \in 1..Len(path) : path[i] # m}}

RECURSIVE PathWeight(_, _, _)
PathWeight(w, path, i) ==
    IF i >= Len(path) THEN 0
    ELSE distance(Coord(w, path[i]), Coord(w, path[i + 1])) + PathWeight(w, path, i + 1)

\* a search returning a path of greatest weight among the simple paths
shortest_path_heaviest(w, source, target) ==
    LET all == SimplePaths(w, <<source>>, target) IN
    IF all = {} THEN [raised |-> TRUE, path |-> <<>>]
    ELSE [raised |-> FALSE,
          path |-> CHOOSE p \in all :
                      \A o \in all : PathWeight(w, p, 1) >= PathWeight(w, o, 1)]

\* nx.shortest_path(weight="weight"): a minimum-weight path, or NetworkXNoPath
shortest_path(w, source, target) ==
    LET all == SimplePaths(w, <<source>>, target) IN
    IF all = {} THEN [raised |-> TRUE, path |-> <<>>]
    ELSE [raised |-> FALSE,
          path |-> CHOOSE p \in all :
                      \A o \in all : PathWeight(w, p, 1) <= PathWeight(w, o, 1)]

\* compute_shortest_route searching from the end point to the start point
compute_shortest_route_reversed(w, start, end) ==
    LET start_node == nearest_node(w, start)
        end_node == nearest_node(w, end)
    IN IF start_node = 0 \/ end_node = 0 THEN [raised |-> FALSE, path |-> <<>>]
       ELSE shortest_path(w, end_node, start_node)

compute_shortest_route(w, start, end) ==
    LET start_node == nearest_node(w, start)
        end_node == nearest_node(w, end)
    IN IF start_node = 0 \/ end_node = 0 THEN [raised |-> FALSE, path |-> <<>>]
       ELSE shortest_path(w, start_node, end_node)

\* the callers' "try: ... except Exception: path = []"
RouteOrEmpty(w, start, end) ==
    LET r == compute_shortest_route(w, start, end) IN
    IF r.raised THEN <<>> ELSE r.path

(***************************************************************************)
(* Agents (simulation/agents.py).  The operators work on a model value     *)
(* M = [persons, evacs, sd, cong]: the evacuees, the shelters, the         *)
(* congestion manager's segment data, and whether the model object has     *)
(* its `congestion` attribute yet (a call through a missing attribute      *)
(* raises, and every such call sits in a try/except that passes).          *)
(* An evacuee record also keeps `held`: the segments entered on its        *)
(* behalf and not left on its behalf since (the code keeps no such list).  *)
(***************************************************************************)
EvacCenterAgent(loc, capacity) ==
    [loc |-> loc, capacity |-> capacity, occupants |-> 0]

can_accept(evac) == evac.occupants < evac.capacity

\* add_occupant without the can_accept guard
add_occupant_unchecked(evac) == [evac EXCEPT !.occupants = @ + 1]

add_occupant(evac) ==
    IF can_accept(evac) THEN [evac EXCEPT !.occupants = @ + 1] ELSE evac

PersonAgent(home_loc) ==
    [home |-> home_loc, pos |-> PosOf(home_loc), state |-> "idle",
     evac_center_id |-> NoId, route |-> <<>>, route_idx |-> 0,
     segment_progress |-> <<0, 1>>, reached |-> FALSE, held |-> <<>>]

\* route[k] of the code (0-based)
RouteAt(me, k) == me.route[k + 1]

HasSegment(me) == Len(me.route) > 0 /\ me.route_idx < Len(me.route) - 1

\* _current_segment: the pair of nodes, <<0, 0>> for (None, None)
current_segment(me) ==
    IF ~HasSegment(me) THEN <<0, 0>>
    ELSE <<RouteAt(me, me.route_idx), RouteAt(me, me.route_idx + 1)>>

\* the held segments without one occurrence of key (unchanged if not held)
Released(held, key) ==
    IF \A k \in 1..Len(held) : held[k] # key THEN held
    ELSE LET k == CHOOSE j \in 1..Len(held) : held[j] = key
         IN SubSeq(held, 1, k - 1) \o SubSeq(held, k + 1, Len(held))

\* a leave_segment / enter_segment call made by or for evacuee i
Leave(M, i, a, b) ==
    IF M.cong
    THEN [M EXCEPT !.sd = leave_segment(@, a, b),
                   !.persons[i].held = Released(@, SegKey(a, b))]
    ELSE M

Enter(M, i, a, b) ==
    IF M.cong
    THEN [M EXCEPT !.sd = enter_segment(@, a, b),
                   !.persons[i].held = Append(@, SegKey(a, b))]
    ELSE M

LeaveCurrent(M, i) ==
    LET seg == current_segment(M.persons[i]) IN
    IF seg[1] = 0 THEN M ELSE Leave(M, i, seg[1], seg[2])

EnterCurrent(M, i) ==
    LET seg == current_segment(M.persons[i]) IN
    IF seg[1] = 0 THEN M ELSE Enter(M, i, seg[1], seg[2])

\* assign_route without the release of the segment held so far
assign_route_no_cleanup(M, i, route_nodes, evac_center_id) ==
    IF Len(route_nodes) < 2
    THEN [M EXCEPT !.persons[i].route = <<>>,
                   !.persons[i].evac_center_id = NoId,
                   !.persons[i].state = "stuck"]
    ELSE Enter([M EXCEPT !.persons[i].route = route_nodes,
                         !.persons[i].route_idx = 0,
                         !.persons[i].segment_progress = <<0, 1>>,
                         !.persons[i].evac_center_id = evac_center_id,
                         !.persons[i].state = "evacuating"],
               i, route_nodes[1], route_nodes[2])

assign_route(M, i, route_nodes, evac_center_id) ==
    LET M1 == LeaveCurrent(M, i) IN
    IF Len(route_nodes) < 2
    THEN [M1 EXCEPT !.persons[i].route = <<>>,
                    !.persons[i].evac_center_id = NoId,
                    !.persons[i].state = "stuck"]
    ELSE Enter([M1 EXCEPT !.persons[i].route = route_nodes,
                          !.persons[i].route_idx = 0,
                          !.persons[i].segment_progress = <<0, 1>>,
                          !.persons[i].evac_center_id = evac_center_id,
                          !.persons[i].state = "evacuating"],
               i, route_nodes[1], route_nodes[2])

\* _segment_length_m between two nodes
segment_length_m(w, a, b) == distance(Coord(w, a), Coord(w, b))

\* _segment_length_m(pos, coord) < 1.0
WithinThreshold(q, c) ==
    DistSqNum(q, c) < (arrive_threshold * q[3]) * (arrive_threshold * q[3])

\* _arrive turning an evacuee away from a full shelter
_arrive_if_room(M, i) ==
    LET me == M.persons[i]
        id == me.evac_center_id
        M1 == IF me.route_idx > 0 /\ me.route_idx < Len(me.route)
              THEN Leave(M, i, RouteAt(me, me.route_idx - 1), RouteAt(me, me.route_idx))
              ELSE M
    IN IF id # NoId /\ id \in DOMAIN M.evacs
       THEN IF can_accept(M.evacs[id])
            THEN [M1 EXCEPT !.persons[i].state = "safe",
                            !.persons[i].reached = TRUE,
                            !.evacs[id] = add_occupant(@)]
            ELSE M
       ELSE [M1 EXCEPT !.persons[i].state = "safe", !.persons[i].reached = TRUE]

_arrive(M, i) ==
    LET me == M.persons[i]
        M1 == IF me.route_idx > 0 /\ me.route_idx < Len(me.route)
              THEN Leave(M, i, RouteAt(me, me.route_idx - 1), RouteAt(me, me.route_idx))
              ELSE M
        M2 == [M1 EXCEPT !.persons[i].state = "safe",
                         !.persons[i].reached = TRUE]
        id == me.evac_center_id
    IN IF id # NoId /\ id \in DOMAIN M.evacs
       THEN [M2 EXCEPT !.evacs[id] = add_occupant(@)]
       ELSE M2

_become_overtaken(M, i) ==
    LET M1 == LeaveCurrent(M, i) IN
    [M1 EXCEPT !.persons[i].state = "overtaken",
               !.persons[i].reached = FALSE]

\* the seg_len == 0 branch of PersonAgent.step
ZeroLengthHop(M, i) ==
    LET M1 == LeaveCurrent(M, i)
        M2 == [M1 EXCEPT !.persons[i].route_idx = @ + 1,
                         !.persons[i].segment_progress = <<0, 1>>]
    IN EnterCurrent(M2, i)

\* the while loop of PersonAgent.step
RECURSIVE Rollover(_, _)
Rollover(M, i) ==
    LET me == M.persons[i] IN
    IF RGeqOne(me.segment_progress) /\ me.route_idx < Len(me.route) - 1
    THEN LET M1 == LeaveCurrent(M, i)
             M2 == [M1 EXCEPT !.persons[i].route_idx = @ + 1,
                              !.persons[i].segment_progress = RMinusOne(@)]
         IN Rollover(EnterCurrent(M2, i), i)
    ELSE M

Clamp01(r) == IF r[1] < 0 THEN <<0, 1>> ELSE IF RGeqOne(r) THEN <<1, 1>> ELSE r

\* PersonAgent.step where a segment above its capacity lets nobody move
Advance_blocked(M, i, w) ==
    LET me == M.persons[i]
        seg == current_segment(me)
        seg_len == segment_length_m(w, seg[1], seg[2])
        over == M.cong /\ get_speed_multiplier(M.sd, seg[1], seg[2]) # <<1, 1>>
        delta == IF over THEN <<0, 1>>
                 ELSE Norm(<<speed * step_time_seconds, seg_len>>)
        M1 == [M EXCEPT !.persons[i].segment_progress = RAdd(@, delta)]
        M2 == Rollover(M1, i)
        s == Clamp01(M2.persons[i].segment_progress)
        M3 == [M2 EXCEPT !.persons[i].pos =
                    interpolate(Coord(w, seg[1]), Coord(w, seg[2]), s)]
        now == M3.persons[i]
    IN IF /\ now.route_idx >= Len(now.route) - 1
          /\ WithinThreshold(now.pos, Coord(w, now.route[Len(now.route)]))
       THEN _arrive(M3, i)
       ELSE M3

\* PersonAgent.step from the speed multiplier to the arrival check
Advance(M, i, w) ==
    LET me == M.persons[i]
        seg == current_segment(me)
        seg_len == segment_length_m(w, seg[1], seg[2])
        speed_factor == IF M.cong THEN get_speed_multiplier(M.sd, seg[1], seg[2])
                        ELSE <<1, 1>>
        delta == Norm(<<speed * speed_factor[1] * step_time_seconds,
                        speed_factor[2] * seg_len>>)
        M1 == [M EXCEPT !.persons[i].segment_progress = RAdd(@, delta)]
        M2 == Rollover(M1, i)
        s == Clamp01(M2.persons[i].segment_progress)
        M3 == [M2 EXCEPT !.persons[i].pos =
                    interpolate(Coord(w, seg[1]), Coord(w, seg[2]), s)]
        now == M3.persons[i]
    IN IF /\ now.route_idx >= Len(now.route) - 1
          /\ WithinThreshold(now.pos, Coord(w, now.route[Len(now.route)]))
       THEN _arrive(M3, i)
       ELSE M3

\* which part of PersonAgent.step runs for evacuee me
StepBranch(me, w) ==
    IF me.state # "evacuating" THEN "inactive"
    ELSE IF me.route_idx >= Len(me.route) - 1 THEN "arrive"
    ELSE IF segment_length_m(w, current_segment(me)[1], current_segment(me)[2]) = 0
    THEN "hop"
    ELSE "advance"

\* PersonAgent.step up to (not including) its hazard check
person_step(M, i, w) ==
    LET branch == StepBranch(M.persons[i], w) IN
    CASE branch = "inactive" -> M
      [] branch = "arrive" -> _arrive(M, i)
      [] branch = "hop" -> ZeroLengthHop(M, i)
      [] OTHER -> Advance(M, i, w)

\* the agent-level hazard check that ends PersonAgent.step
person_hazard_check(M, i, hz, now) ==
    LET arrival == get_time_to_inundation(hz, M.persons[i].pos) IN
    IF arrival.known /\ ArrivalLeq(arrival, now)
    THEN _become_overtaken(M, i)
    ELSE M

(***************************************************************************)
(* EvacuationModel (simulation/model.py)                                   *)
(***************************************************************************)
RECURSIVE spawn_evac_centers(_, _)
spawn_evac_centers(shelters, k) ==
    IF k > Len(shelters) THEN <<>>
    ELSE <<EvacCenterAgent(shelters[k].loc, shelters[k].capacity)>>
         \o spawn_evac_centers(shelters, k + 1)

\* "population_limit and spawned >= population_limit"; -1 stands for None
LimitReached(population_limit, spawned) ==
    population_limit > 0 /\ spawned >= population_limit

\* _spawn_people without the route assignment that ends it: building k,
\* j people of it spawned so far, `people` spawned in all
RECURSIVE spawn_people(_, _, _, _, _)
spawn_people(buildings, population_limit, k, j, people) ==
    IF k > Len(buildings) THEN people
    ELSE IF j = 0 /\ LimitReached(population_limit, Len(people)) THEN people
    ELSE IF j >= buildings[k].pop \/ LimitReached(population_limit, Len(people))
    THEN spawn_people(buildings, population_limit, k + 1, 0, people)
    ELSE spawn_people(buildings, population_limit, k, j + 1,
                      Append(people, PersonAgent(buildings[k].loc)))

\* the shelter minimising the squared distance to the point; the first on ties
find_nearest_evac_center(evacs, q) ==
    IF Len(evacs) = 0 THEN NoId
    ELSE CHOOSE e \in 1..Len(evacs) :
            \A f \in 1..Len(evacs) :
               \/ DistSqNum(q, evacs[e].loc) < DistSqNum(q, evacs[f].loc)
               \/ DistSqNum(q, evacs[e].loc) = DistSqNum(q, evacs[f].loc) /\ e <= f

RECURSIVE assign_routes_to_people(_, _, _)
assign_routes_to_people(M, i, w) ==
    IF i > Len(M.persons) THEN M
    ELSE LET me == M.persons[i]
             nearest_evac_id == find_nearest_evac_center(M.evacs, PosOf(me.home))
         IN IF nearest_evac_id = NoId
            THEN assign_routes_to_people(M, i + 1, w)
            ELSE LET path == RouteOrEmpty(w, PosOf(me.home),
                                         PosOf(M.evacs[nearest_evac_id].loc))
                     M1 == IF Len(path) >= 2
                           THEN assign_route(M, i, path, nearest_evac_id)
                           ELSE [M EXCEPT !.persons[i].state = "stuck"]
                 IN assign_routes_to_people(M1, i + 1, w)

RECURSIVE register_all(_, _)
register_all(sd, edges) ==
    IF edges = {} THEN sd
    ELSE LET e == CHOOSE x \in edges : TRUE
         IN register_all(register_segment(sd, e[1], e[2], 0), edges \ {e})

\* EvacuationModel.__init__: the people are spawned and routed before the
\* congestion manager exists
EvacuationModel(w, population_limit) ==
    LET evacs == spawn_evac_centers(Geo(w).shelters, 1)
        people == spawn_people(Geo(w).buildings, population_limit, 1, 0, <<>>)
        M0 == [persons |-> people, evacs |-> evacs,
               sd |-> EmptySegmentData, cong |-> FALSE]
        M1 == assign_routes_to_people(M0, 1, w)
    IN [M1 EXCEPT !.sd = register_all(EmptySegmentData, Geo(w).edges),
                  !.cong = TRUE]

\* recompute_route_for_person choosing the nearest shelter, accepting or not
recompute_route_for_person_nearest_any(M, i, w) ==
    LET me == M.persons[i]
        current_target == me.evac_center_id
        has_target == current_target # NoId /\ current_target \in DOMAIN M.evacs
        accepting == {e \in DOMAIN M.evacs : can_accept(M.evacs[e])}
        new_target ==
            CHOOSE e \in DOMAIN M.evacs :
               \A f \in DOMAIN M.evacs :
                  \/ DistSqNum(me.pos, M.evacs[e].loc) < DistSqNum(me.pos, M.evacs[f].loc)
                  \/ /\ DistSqNum(me.pos, M.evacs[e].loc) = DistSqNum(me.pos, M.evacs[f].loc)
                     /\ e <= f
        keep == has_target /\ can_accept(M.evacs[current_target])
        target == IF keep THEN current_target ELSE new_target
    IN IF Len(me.route) = 0 THEN M
       ELSE IF ~keep /\ accepting = {} THEN M
       ELSE LET new_path == RouteOrEmpty(w, me.pos, PosOf(M.evacs[target].loc))
            IN IF Len(new_path) >= 2 THEN assign_route(M, i, new_path, target)
               ELSE M

\* recompute_route_for_person dropping the route when no shelter can accept
recompute_route_for_person_giving_up(M, i, w) ==
    LET me == M.persons[i]
        current_target == me.evac_center_id
        has_target == current_target # NoId /\ current_target \in DOMAIN M.evacs
        accepting == {e \in DOMAIN M.evacs : can_accept(M.evacs[e])}
        new_target ==
            CHOOSE e \in accepting :
               \A f \in accepting :
                  \/ DistSqNum(me.pos, M.evacs[e].loc) < DistSqNum(me.pos, M.evacs[f].loc)
                  \/ /\ DistSqNum(me.pos, M.evacs[e].loc) = DistSqNum(me.pos, M.evacs[f].loc)
                     /\ e <= f
        keep == has_target /\ can_accept(M.evacs[current_target])
        target == IF keep THEN current_target ELSE new_target
    IN IF Len(me.route) = 0 THEN M
       ELSE IF ~keep /\ accepting = {} THEN assign_route(M, i, <<>>, NoId)
       ELSE LET new_path == RouteOrEmpty(w, me.pos, PosOf(M.evacs[target].loc))
            IN IF Len(new_path) >= 2 THEN assign_route(M, i, new_path, target)
               ELSE M

recompute_route_for_person(M, i, w) ==
    LET me == M.persons[i]
        current_target == me.evac_center_id
        has_target == current_target # NoId /\ current_target \in DOMAIN M.evacs
        accepting == {e \in DOMAIN M.evacs : can_accept(M.evacs[e])}
        new_target ==
            CHOOSE e \in accepting :
               \A f \in accepting :
                  \/ DistSqNum(me.pos, M.evacs[e].loc) < DistSqNum(me.pos, M.evacs[f].loc)
                  \/ /\ DistSqNum(me.pos, M.evacs[e].loc) = DistSqNum(me.pos, M.evacs[f].loc)
                     /\ e <= f
        keep == has_target /\ can_accept(M.evacs[current_target])
        target == IF keep THEN current_target ELSE new_target
    IN IF Len(me.route) = 0 THEN M
       ELSE IF ~keep /\ accepting = {} THEN M
       ELSE LET new_path == RouteOrEmpty(w, me.pos, PosOf(M.evacs[target].loc))
            IN IF Len(new_path) >= 2 THEN assign_route(M, i, new_path, target)
               ELSE M

Terminal == {"safe", "overtaken", "stuck"}

\* the post-step loop body without its centralized hazard check
post_step_person_no_overtake(M, i, w, hz, now) ==
    LET me == M.persons[i]
        arrival == get_time_to_inundation(hz, me.pos)
    IN IF me.state = "evacuating"
       THEN LET M1 == IF arrival.known /\ ArrivalLeq(arrival, now + reroute_threshold_s)
                      THEN recompute_route_for_person(M, i, w)
                      ELSE M
                id == M1.persons[i].evac_center_id
            IN IF /\ id # NoId
                  /\ id \in DOMAIN M1.evacs
                  /\ ~can_accept(M1.evacs[id])
               THEN recompute_route_for_person(M1, i, w)
               ELSE M1
       ELSE IF me.state \in {"safe", "overtaken", "stuck"}
       THEN LeaveCurrent(M, i)
       ELSE M

\* the body of the post-step loop of EvacuationModel.step for one evacuee
post_step_person(M, i, w, hz, now) ==
    LET me == M.persons[i]
        arrival == get_time_to_inundation(hz, me.pos)
        cleanup(X) == IF X.persons[i].state \in Terminal THEN LeaveCurrent(X, i) ELSE X
    IN IF me.state = "evacuating"
       THEN IF arrival.known /\ ArrivalLeq(arrival, now)
            THEN _become_overtaken(M, i)
            ELSE LET M1 == IF arrival.known /\ ArrivalLeq(arrival, now + reroute_threshold_s)
                           THEN recompute_route_for_person(M, i, w)
                           ELSE M
                     id == M1.persons[i].evac_center_id
                     M2 == IF /\ id # NoId
                              /\ id \in DOMAIN M1.evacs
                              /\ ~can_accept(M1.evacs[id])
                           THEN recompute_route_for_person(M1, i, w)
                           ELSE M1
                 IN cleanup(M2)
       ELSE cleanup(M)

RECURSIVE post_step(_, _, _, _, _)
post_step(M, i, w, hz, now) ==
    IF i > Len(M.persons) THEN M
    ELSE post_step(post_step_person(M, i, w, hz, now), i + 1, w, hz, now)

(***************************************************************************)
(* The simulation session (app.py) and the tick (EvacuationModel.step)     *)
(***************************************************************************)
NoHazard == TsunamiHazard(FALSE, <<>>, <<>>, 0)
NoRet == [fn |-> "none", args |-> <<>>, value |-> 0]

\* the running model as a value, and back
TheModel == [persons |-> person_agents, evacs |-> evac_agents,
             sd |-> segment_data, cong |-> TRUE]

Persons == 1..Len(person_agents)

\* evacuating evacuees whose current segment (route[idx], route[idx+1]) is key
Occupying(key) ==
    {i \in Persons :
        /\ person_agents[i].state = "evacuating"
        /\ HasSegment(person_agents[i])
        /\ SegKey(current_segment(person_agents[i])[1],
                  current_segment(person_agents[i])[2]) = key}

DensityIsOccupancy ==
    \A key \in DOMAIN segment_data :
        segment_data[key].density = Cardinality(Occupying(key))

Install(M) ==
    /\ person_agents' = M.persons
    /\ evac_agents' = M.evacs
    /\ segment_data' = M.sd

Init ==
    /\ SIM_MODEL = "None"
    /\ world = 0
    /\ person_agents = <<>>
    /\ evac_agents = <<>>
    /\ segment_data = EmptySegmentData
    /\ hazard = NoHazard
    /\ sim_time = 0
    /\ pc = "idle"
    /\ activated = {}
    /\ checking = 0
    /\ tick_start_ok = FALSE
    /\ last_update = 0
    /\ frozen = {}
    /\ ret = NoRet

\* start_simulation, the model initializes
start_simulation(w, pop_limit) ==
    /\ pc = "idle"
    /\ SIM_MODEL' = "model"
    /\ world' = w
    /\ Install(EvacuationModel(w, pop_limit))
    /\ hazard' = TsunamiHazard(FALSE, <<>>, Geo(w).sources, propagation_speed)
    /\ sim_time' = 0
    /\ last_update' = 0
    /\ tick_start_ok' = FALSE
    /\ ret' = [fn |-> "start", args |-> <<w, pop_limit>>, value |-> "started"]
    /\ frozen' = {}
    /\ UNCHANGED <<pc, activated, checking>>

\* start_simulation, EvacuationModel raises (the geo data cannot be read)
start_simulation_fails ==
    /\ pc = "idle"
    /\ ret' = [fn |-> "start", args |-> <<>>, value |-> "error"]
    /\ UNCHANGED <<SIM_MODEL, world, person_agents, evac_agents, segment_data,
                   hazard, sim_time, pc, activated, checking, tick_start_ok,
                   last_update, frozen>>

stop_simulation ==
    /\ pc = "idle"
    /\ SIM_MODEL' = "None"
    /\ world' = 0
    /\ person_agents' = <<>>
    /\ evac_agents' = <<>>
    /\ segment_data' = EmptySegmentData
    /\ hazard' = NoHazard
    /\ sim_time' = 0
    /\ last_update' = 0
    /\ tick_start_ok' = FALSE
    /\ ret' = [fn |-> "stop", args |-> <<>>, value |-> "stopped"]
    /\ frozen' = {}
    /\ UNCHANGED <<pc, activated, checking>>

\* simulation_step without a model
simulation_step_rejected ==
    /\ pc = "idle"
    /\ SIM_MODEL = "None"
    /\ ret' = [fn |-> "step", args |-> <<>>, value |-> "not running"]
    /\ UNCHANGED <<SIM_MODEL, world, person_agents, evac_agents, segment_data,
                   hazard, sim_time, pc, activated, checking, tick_start_ok,
                   last_update, frozen>>

\* the start of EvacuationModel.step without hazard.update
StepClockNoPush ==
    /\ pc = "idle"
    /\ SIM_MODEL = "model"
    /\ sim_time < MaxTime
    /\ sim_time' = sim_time + step_time_seconds
    /\ pc' = "agents"
    /\ activated' = {}
    /\ tick_start_ok' = DensityIsOccupancy
    /\ ret' = [fn |-> "step", args |-> <<>>, value |-> "stepping"]
    /\ frozen' = {i \in Persons : person_agents[i].state \in Terminal}
    /\ UNCHANGED <<SIM_MODEL, world, person_agents, evac_agents, segment_data,
                   checking, hazard, last_update>>

\* EvacuationModel.step: the clock and the hazard's clock
StepClock ==
    /\ pc = "idle"
    /\ SIM_MODEL = "model"
    /\ sim_time < MaxTime
    /\ sim_time' = sim_time + step_time_seconds
    /\ hazard' = update(hazard, sim_time')
    /\ last_update' = sim_time'
    /\ pc' = "agents"
    /\ activated' = {}
    /\ tick_start_ok' = DensityIsOccupancy
    /\ ret' = [fn |-> "step", args |-> <<>>, value |-> "stepping"]
    /\ frozen' = {i \in Persons : person_agents[i].state \in Terminal}
    /\ UNCHANGED <<SIM_MODEL, world, person_agents, evac_agents, segment_data,
                   checking>>

\* schedule.step(): the scheduler activates evacuee i (in a shuffled order);
\* PersonAgent.step runs up to its hazard check
AgentStep(i) ==
    /\ pc = "agents"
    /\ checking = 0
    /\ i \in Persons \ activated
    /\ Install(person_step(TheModel, i, world))
    /\ IF StepBranch(person_agents[i], world) = "advance"
       THEN checking' = i /\ activated' = activated
       ELSE checking' = 0 /\ activated' = activated \cup {i}
    /\ UNCHANGED <<SIM_MODEL, world, hazard, sim_time, pc, tick_start_ok,
                   last_update, ret, frozen>>

\* PersonAgent.step: the hazard check that ends it
AgentHazardCheck ==
    /\ pc = "agents"
    /\ checking # 0
    /\ Install(person_hazard_check(TheModel, checking, hazard, sim_time))
    /\ checking' = 0
    /\ activated' = activated \cup {checking}
    /\ UNCHANGED <<SIM_MODEL, world, hazard, sim_time, pc, tick_start_ok,
                   last_update, ret, frozen>>

\* EvacuationModel.step: the post-step loop over all evacuees
PostStep ==
    /\ pc = "agents"
    /\ checking = 0
    /\ activated = Persons
    /\ Install(post_step(TheModel, 1, world, hazard, sim_time))
    /\ pc' = "idle"
    /\ activated' = {}
    /\ ret' = [fn |-> "step", args |-> <<>>, value |-> "ok"]
    /\ UNCHANGED <<SIM_MODEL, world, hazard, sim_time, checking, tick_start_ok,
                   last_update, frozen>>

PopulationLimits == -1..MaxLimit

Next ==
    \/ \E w \in Worlds, pop_limit \in PopulationLimits : start_simulation(w, pop_limit)
    \/ start_simulation_fails
    \/ stop_simulation
    \/ simulation_step_rejected
    \/ StepClock
    \/ \E i \in Persons : AgentStep(i)
    \/ AgentHazardCheck
    \/ PostStep

Spec == Init /\ [][Next]_vars

(***************************************************************************)
(* The congestion manager on its own: any sequence of calls                *)
(***************************************************************************)
CongNodes == {1, 2}

InitCong == Init

CongRegister(a, b, capacity) ==
    /\ segment_data' = register_segment(segment_data, a, b, capacity)
    /\ ret' = [fn |-> "register_segment", args |-> <<a, b, capacity>>, value |-> 0]
    /\ UNCHANGED <<SIM_MODEL, world, person_agents, evac_agents, hazard, sim_time,
                   pc, activated, checking, tick_start_ok, last_update, frozen>>

CongEnter(a, b) ==
    /\ get_density(segment_data, a, b) < MaxDensity
    /\ segment_data' = enter_segment(segment_data, a, b)
    /\ ret' = [fn |-> "enter_segment", args |-> <<a, b>>,
               value |-> get_density(segment_data, a, b)]
    /\ UNCHANGED <<SIM_MODEL, world, person_agents, evac_agents, hazard, sim_time,
                   pc, activated, checking, tick_start_ok, last_update, frozen>>

CongLeave(a, b) ==
    /\ segment_data' = leave_segment(segment_data, a, b)
    /\ ret' = [fn |-> "leave_segment", args |-> <<a, b>>,
               value |-> get_density(segment_data, a, b)]
    /\ UNCHANGED <<SIM_MODEL, world, person_agents, evac_agents, hazard, sim_time,
                   pc, activated, checking, tick_start_ok, last_update, frozen>>

CongMultiplier(a, b) ==
    /\ ret' = [fn |-> "get_speed_multiplier", args |-> <<a, b>>,
               value |-> get_speed_multiplier(segment_data, a, b)]
    /\ UNCHANGED <<SIM_MODEL, world, person_agents, evac_agents, segment_data,
                   hazard, sim_time, pc, activated, checking, tick_start_ok,
                   last_update, frozen>>

NextCong ==
    \/ \E a, b \in CongNodes, capacity \in 0..MaxCapacity : CongRegister(a, b, capacity)
    \/ \E a, b \in CongNodes : CongEnter(a, b)
    \/ \E a, b \in CongNodes : CongLeave(a, b)
    \/ \E a, b \in CongNodes : CongMultiplier(a, b)

SpecCong == InitCong /\ [][NextCong]_vars

(***************************************************************************)
(* The hazard model on its own: every way to construct it, then updates    *)
(* and queries                                                             *)
(***************************************************************************)
Regions ==
    <<[region |-> [x1 |-> 0, x2 |-> 100, y1 |-> 0, y2 |-> 100], arrival_time |-> 5],
      [region |-> [x1 |-> 100, x2 |-> 200, y1 |-> 0, y2 |-> 100], arrival_time |-> 0],
      [region |-> [x1 |-> 50, x2 |-> 300, y1 |-> 0, y2 |-> 100], arrival_time |-> 9]>>

\* test_hazard.py: one source, 10 m/s, a point about 130 m away
TestSources == <<<<0, 0>>>>
TwoSources == <<<<0, 0>>, <<1500, 0>>>>

HazardObjects ==
    {TsunamiHazard(TRUE, Regions, <<>>, 0),
     TsunamiHazard(TRUE, Regions, TestSources, 100),
     TsunamiHazard(TRUE, <<>>, TestSources, 100),
     TsunamiHazard(FALSE, <<>>, TestSources, 100),
     TsunamiHazard(FALSE, <<>>, TwoSources, propagation_speed),
     TsunamiHazard(FALSE, <<>>, TwoSources, 0),
     TsunamiHazard(FALSE, <<>>, TwoSources, -100),
     TsunamiHazard(FALSE, <<>>, <<>>, 100),
     TsunamiHazard(FALSE, <<>>, <<>>, 0)}

ProbePoints ==
    {<<0, 0, 1>>, <<1300, 0, 1>>, <<100, 50, 1>>, <<301, 1, 2>>, <<250, 100, 1>>,
     <<500, 500, 1>>, <<900, 1200, 1>>}

QueryTimes == -1..MaxQueryTime

InitHazard ==
    /\ SIM_MODEL = "None"
    /\ world = 0
    /\ person_agents = <<>>
    /\ evac_agents = <<>>
    /\ segment_data = EmptySegmentData
    /\ hazard \in HazardObjects
    /\ sim_time = 0
    /\ pc = "idle"
    /\ activated = {}
    /\ checking = 0
    /\ tick_start_ok = FALSE
    /\ last_update = 0
    /\ frozen = {}
    /\ ret = NoRet

HazardUpdate(t) ==
    /\ hazard' = update(hazard, t)
    /\ last_update' = t
    /\ ret' = [fn |-> "update", args |-> <<t>>, value |-> 0]
    /\ UNCHANGED <<SIM_MODEL, world, person_agents, evac_agents, segment_data,
                   sim_time, pc, activated, checking, tick_start_ok, frozen>>

HazardIsInundated(q, time) ==
    /\ ret' = [fn |-> "is_inundated", args |-> <<q, time>>,
               value |-> is_inundated(hazard, q, time)]
    /\ UNCHANGED <<SIM_MODEL, world, person_agents, evac_agents, segment_data,
                   hazard, sim_time, pc, activated, checking, tick_start_ok,
                   last_update, frozen>>

NextHazard ==
    \/ \E t \in 0..MaxQueryTime : HazardUpdate(t)
    \/ \E q \in ProbePoints, time \in QueryTimes : HazardIsInundated(q, time)

SpecHazard == InitHazard /\ [][NextHazard]_vars

(***************************************************************************)
(* Routing on its own: one compute_shortest_route call on each road graph  *)
(* for each pair of query points                                           *)
(***************************************************************************)
QueryPoints ==
    {<<0, 0, 1>>, <<14, 0, 1>>, <<7, 0, 1>>, <<-100, 50, 1>>, <<300, 0, 1>>,
     <<1015, 0, 2>>, <<1000, -1000, 1>>}

\* world 12 is a road network with a cycle: two routes of different weight
RouteWorlds == Worlds \cup {12}

InitRoute ==
    /\ SIM_MODEL = "None"
    /\ world \in RouteWorlds
    /\ person_agents = <<>>
    /\ evac_agents = <<>>
    /\ segment_data = EmptySegmentData
    /\ hazard = NoHazard
    /\ sim_time = 0
    /\ pc = "idle"
    /\ activated = {}
    /\ checking = 0
    /\ tick_start_ok = FALSE
    /\ last_update = 0
    /\ frozen = {}
    /\ ret = NoRet

RouteQuery(start, end) ==
    /\ ret' = [fn |-> "compute_shortest_route", args |-> <<start, end>>,
               value |-> compute_shortest_route(world, start, end)]
    /\ UNCHANGED <<SIM_MODEL, world, person_agents, evac_agents, segment_data,
                   hazard, sim_time, pc, activated, checking, tick_start_ok,
                   last_update, frozen>>

NextRoute == \E start, end \in QueryPoints : RouteQuery(start, end)

SpecRoute == InitRoute /\ [][NextRoute]_vars

(***************************************************************************)
(* Properties                                                              *)
(***************************************************************************)
Running == SIM_MODEL = "model"
BetweenSteps == Running /\ pc = "idle"

\* C1: every registered segment has density >= 0 after any sequence of
\* enter_segment / leave_segment calls, also with more leaves than enters.
C1_DensityNeverNegative ==
    \A key \in DOMAIN segment_data : segment_data[key].density >= 0

\* a leave_segment call on a registered segment whose density was already 0
C1_Witness ==
    /\ ret.fn = "leave_segment"
    /\ SegKey(ret.args[1], ret.args[2]) \in DOMAIN segment_data
    /\ ret.value = 0
    /\ segment_data[SegKey(ret.args[1], ret.args[2])].density = 0

\* C2: if every registered segment's density equals the number of evacuating
\* evacuees on it when a step begins, the same holds when the step ends.
C2_StepPreservesOccupancy ==
    (BetweenSteps /\ sim_time > 0 /\ tick_start_ok) => DensityIsOccupancy

\* C3: right after start, every registered segment's density is the number of
\* evacuating evacuees whose route starts with that segment.
C3_InitialOccupancyRegistered ==
    (BetweenSteps /\ sim_time = 0) =>
        \A key \in DOMAIN segment_data :
            segment_data[key].density =
                Cardinality({i \in Persons :
                    /\ person_agents[i].state = "evacuating"
                    /\ Len(person_agents[i].route) >= 2
                    /\ SegKey(person_agents[i].route[1],
                              person_agents[i].route[2]) = key})

\* C4: safe, overtaken and stuck are absorbing: inside a step, an evacuee
\* whose state is one of them keeps that state.
C4_TerminalAbsorbing ==
    [][pc = "agents" =>
          \A i \in Persons :
              person_agents[i].state \in Terminal =>
                  person_agents'[i].state = person_agents[i].state]_vars

\* C5: every shelter has occupants <= capacity in every reachable state.
C5_OccupantsWithinCapacity ==
    \A e \in DOMAIN evac_agents :
        evac_agents[e].occupants <= evac_agents[e].capacity

SafeAt(e) ==
    {i \in Persons : /\ person_agents[i].state = "safe"
                     /\ person_agents[i].evac_center_id = e}

\* a shelter filled to its capacity at which more evacuees have arrived
C5_Witness ==
    \E e \in DOMAIN evac_agents :
        /\ evac_agents[e].capacity > 0
        /\ evac_agents[e].occupants = evac_agents[e].capacity
        /\ Cardinality(SafeAt(e)) > evac_agents[e].capacity

\* the evacuee the scheduler is activating in this transition
Activating(i) ==
    /\ pc = "agents" /\ checking = 0
    /\ i \in Persons \ activated
    /\ (i \in activated' \/ checking' = i)

C7_SpeedMultiplier ==
    \A key \in DOMAIN segment_data :
        LET c == segment_data[key].capacity
            d == segment_data[key].density
            m == get_speed_multiplier(segment_data, key[1], key[2])
            more == get_speed_multiplier(enter_segment(segment_data, key[1], key[2]),
                                         key[2], key[1])
        IN /\ m[2] > 0 /\ m[1] > 0 /\ m[1] <= m[2]
           /\ d <= c => m[1] = m[2]
           /\ d > c => m[1] * (5 + 4 * (d - c)) = 5 * m[2]
           /\ d >= c => RLess(more, m)

\* capacity 1, density 2: the multiplier is 5/9
C7_Witness ==
    \E key \in DOMAIN segment_data :
        /\ segment_data[key].capacity = 1
        /\ segment_data[key].density = 2
        /\ ret.fn = "get_speed_multiplier"
        /\ SegKey(ret.args[1], ret.args[2]) = key
        /\ ret.value[1] * 9 = ret.value[2] * 5

\* C8: is_inundated(point, t) is true exactly when the arrival time at the
\* point is known and <= t, t defaulting to the time last passed to update;
\* so it is false below the arrival time and true from it on.
C8_IsInundated ==
    \A q \in ProbePoints, time \in QueryTimes :
        LET arrival == get_time_to_inundation(hazard, q)
            t == IF time = -1 THEN last_update ELSE time
        IN /\ is_inundated(hazard, q, time) = (arrival.known /\ ArrivalLeq(arrival, t))
           /\ \A later \in 0..MaxQueryTime :
                 (time # -1 /\ time <= later /\ is_inundated(hazard, q, time))
                     => is_inundated(hazard, q, later)

\* after an update, a point is inundated now (default time) but was not at 0
C8_Witness ==
    /\ last_update > 0
    /\ ret.fn = "is_inundated"
    /\ ret.args[2] = -1
    /\ ret.value = TRUE
    /\ ~is_inundated(hazard, ret.args[1], 0)
    /\ ~is_inundated(hazard, ret.args[1], last_update - 1)

Inundated(i) ==
    LET arrival == get_time_to_inundation(hazard, person_agents[i].pos)
    IN arrival.known /\ ArrivalLeq(arrival, sim_time)

\* C9: at the end of every step no evacuee is evacuating at a position whose
\* hazard arrival time is known and <= sim_time.
C9_NoEvacuatingInundated ==
    (BetweenSteps /\ sim_time > 0) =>
        \A i \in Persons : person_agents[i].state = "evacuating" => ~Inundated(i)

\* a step has ended with an evacuee overtaken where the hazard has arrived
C9_Witness ==
    /\ BetweenSteps /\ sim_time > 0
    /\ \E i \in Persons : person_agents[i].state = "overtaken" /\ Inundated(i)

\* C10: a step adds exactly step_time_seconds to sim_time, nothing else
\* changes sim_time of a model, and between steps the hazard model's current
\* time is sim_time.
C10_ClockAdvance ==
    /\ [](BetweenSteps => hazard.current_time = sim_time)
    /\ [][IF pc = "idle" /\ pc' = "agents"
          THEN sim_time' = sim_time + step_time_seconds
          ELSE sim_time' = sim_time \/ (ret'.fn \in {"start", "stop"} /\ sim_time' = 0)]_vars

\* two steps have been made
C10_Witness ==
    BetweenSteps /\ sim_time = 2 * step_time_seconds /\ hazard.current_time = sim_time

\* the number of evacuees the building data produces without a limit
RECURSIVE BuildingPopulation(_, _)
BuildingPopulation(buildings, k) ==
    IF k > Len(buildings) THEN 0
    ELSE buildings[k].pop + BuildingPopulation(buildings, k + 1)

\* C11: start with an integer population limit L >= 0 creates
\* min(L, population of the building data) evacuees.
C11_PopulationLimit ==
    (Running /\ ret.fn = "start" /\ ret.value = "started" /\ ret.args[2] >= 0) =>
        LET L == ret.args[2]
            all == BuildingPopulation(Geo(world).buildings, 1)
        IN Len(person_agents) = IF L <= all THEN L ELSE all

\* a compute_shortest_route call has returned or raised on road graph w
Routed(w) == ret.fn = "compute_shortest_route" /\ world = w

\* node n is at least as near to query point q as every node of the graph
Nearest(w, n, q) ==
    \A m \in Nodes(w) : DistSqNum(q, Coord(w, n)) <= DistSqNum(q, Coord(w, m))

\* C12 as stated: on the graph of two nodes and one edge (world 5), the
\* path has exactly the two nodes for every pair of query points.
C12_TwoNodePathAlways ==
    Routed(5) =>
        /\ ~ret.value.raised
        /\ Len(ret.value.path) = 2
        /\ {ret.value.path[1], ret.value.path[2]} = Nodes(5)

\* C12 amended: on the graph of two nodes and one edge, the path starts
\* at a node nearest to start and ends at a node nearest to end; it has
\* exactly the two nodes when these differ and is the single node when both
\* points snap to the same node.
C12_TwoNodePath ==
    Routed(5) =>
        LET path == ret.value.path IN
        /\ ~ret.value.raised
        /\ Len(path) \in {1, 2}
        /\ \A k \in 1..Len(path) : path[k] \in Nodes(5)
        /\ Nearest(5, path[1], ret.args[1])
        /\ Nearest(5, path[Len(path)], ret.args[2])
        /\ Len(path) = 2 <=> path[1] # path[Len(path)]

\* two query points away from the road, the start nearer to the second node
\* and the end nearer to the first: the path is the two nodes, second first
C12_Witness ==
    /\ Routed(5)
    /\ ret.args = <<<<1000, -1000, 1>>, <<-100, 50, 1>>>>
    /\ ret.value.path = <<2, 1>>

\* C13: compute_shortest_route returns the empty sequence, and does not
\* raise, when the graph has no nodes or the nearest nodes of start and end
\* are not connected.
C13_EmptyWhenNoPath ==
    ret.fn = "compute_shortest_route" =>
        LET start_node == nearest_node(world, ret.args[1])
            end_node == nearest_node(world, ret.args[2])
        IN (Nodes(world) = {} \/ SimplePaths(world, <<start_node>>, end_node) = {})
              => ~ret.value.raised /\ ret.value.path = <<>>

\* nothing disturbs the walk: the water is further than the reroute
\* threshold from every road node for the whole run, and no shelter fills
\* up while somebody is still walking (densities stay below the capacity
\* of 8, so every multiplier is 1)
Calm ==
    /\ \A n \in Nodes(world) :
          LET arrival == get_time_to_inundation(hazard, PosOf(Coord(world, n)))
          IN arrival.known => ~ArrivalLeq(arrival, MaxTime + 1 + reroute_threshold_s)
    /\ \A e \in DOMAIN evac_agents : evac_agents[e].capacity >= Len(person_agents)
    /\ \A key \in DOMAIN segment_data :
          segment_data[key].density <= segment_data[key].capacity

\* ceil(T / (speed * step_time_seconds))
TicksNeeded(T) ==
    (T + speed * step_time_seconds - 1) \div (speed * step_time_seconds)

\* C14: with multiplier 1 and no hazard, an evacuee with a route of total
\* length T becomes safe after ceil(T / (speed * tick)) ticks, give or take
\* one: it is not safe earlier than one tick before, and it is safe once
\* one tick more has been made.
C14_TicksToSafe ==
    (Running /\ Calm) =>
        \A i \in Persons :
            LET me == person_agents[i]
                N == TicksNeeded(PathWeight(world, me.route, 1))
                ticks == sim_time \div step_time_seconds
            IN Len(me.route) >= 2 =>
                  /\ me.state = "safe" => ticks >= N - 1
                  /\ (pc = "idle" /\ ticks >= N + 1) => me.state = "safe"

\* C15: after a start call that failed to initialize, no simulation is
\* active: a following step request is rejected as not running and does
\* not advance the clock.
C15_FailedStartLeavesNothing ==
    [][(ret.fn = "start" /\ ret.value = "error" /\ ret'.fn = "step") =>
          (ret'.value = "not running" /\ sim_time' = sim_time)]_vars

\* evacuee i is walking, the water has not reached it, its shelter cannot
\* accept and no shelter can
NoRoom(i) ==
    /\ person_agents[i].state = "evacuating"
    /\ ~Inundated(i)
    /\ person_agents[i].evac_center_id # NoId
    /\ \A e \in DOMAIN evac_agents : ~can_accept(evac_agents[e])

\* C16: a reroute attempted while the evacuee's shelter cannot accept and no
\* shelter can accept leaves the evacuee's route, cursor, shelter and state
\* and every segment's density as they were.
C16_FailedRerouteKeepsRoute ==
    [][(pc = "agents" /\ pc' = "idle") =>
          \A i \in Persons :
              NoRoom(i) =>
                 /\ person_agents'[i] = person_agents[i]
                 /\ recompute_route_for_person(TheModel, i, world).sd = segment_data
                 /\ recompute_route_for_person(TheModel, i, world).persons[i]
                        = person_agents[i]]_vars

\* a step has ended with an evacuee still walking its route, past its first
\* segment, toward a full shelter while no shelter can accept
C16_Witness ==
    /\ BetweenSteps /\ ret.fn = "step" /\ ret.value = "ok"
    /\ \E i \in Persons :
          /\ NoRoom(i)
          /\ Len(person_agents[i].route) >= 2
          /\ person_agents[i].route_idx > 0

\* the hazard model holds neither regions nor usable sources
NoData(hz) == ~hz.has_precomputed /\ ~hz.has_dynamic

\* C17: with a hazard model constructed without regions and without
\* (source points and positive speed), every arrival time is unknown,
\* is_inundated is false for every point and time, and no evacuee is ever
\* overtaken.
C17_NoHazardData ==
    NoData(hazard) =>
        /\ \A q \in ProbePoints \cup {person_agents[i].pos : i \in Persons} :
              /\ ~get_time_to_inundation(hazard, q).known
              /\ \A time \in QueryTimes : ~is_inundated(hazard, q, time)
        /\ \A i \in Persons : person_agents[i].state # "overtaken"

\* a model without hazard data has been stepped and an evacuee has walked
\* past its first segment or reached its shelter
C17_Witness ==
    /\ BetweenSteps /\ sim_time > 0
    /\ NoData(hazard)
    /\ \E i \in Persons :
          \/ person_agents[i].state = "safe"
          \/ person_agents[i].state = "evacuating" /\ person_agents[i].route_idx > 0

\* C18: every evacuee holds at most one unit of congestion occupancy:
\* the segments entered for it and not released since number 0 or 1, so an
\* enter is always preceded by the release of the segment held before
\* (rollover, reroute, zero-length hop).
C18_AtMostOneSegment ==
    \A i \in Persons :
        /\ Len(person_agents[i].held) <= 1
        /\ \A k \in 1..Len(person_agents[i].held) :
              person_agents[i].held[k] \in DOMAIN segment_data

\* an evacuee that released its segment and entered another: by a rollover
\* or hop (it holds the segment at its index, not the first) and by a
\* reroute away from a full shelter (it holds the first segment of a route
\* that does not start at its home node)
C18_Witness ==
    /\ \E i \in Persons :
          /\ person_agents[i].route_idx > 0
          /\ person_agents[i].held =
                <<SegKey(current_segment(person_agents[i])[1],
                         current_segment(person_agents[i])[2])>>
    /\ \E i \in Persons :
          /\ person_agents[i].route_idx = 0
          /\ Len(person_agents[i].held) = 1
          /\ person_agents[i].route[1] #
                nearest_node(world, PosOf(person_agents[i].home))

\* the model when the post-step loop reaches evacuee i: after the loop body
\* has run for the evacuees k, ..., i - 1
RECURSIVE PostStepBefore(_, _, _)
PostStepBefore(M, k, i) ==
    IF k >= i THEN M
    ELSE PostStepBefore(post_step_person(M, k, world, hazard, sim_time), k + 1, i)

\* C19: an evacuee that is safe, overtaken or stuck when a step begins has
\* no effect in the step: its position, route, cursor and state stay as
\* they are, its activation changes no density and neither does its turn in
\* the post-step loop.
C19_TerminalHasNoEffect ==
    [][pc = "agents" =>
          \A i \in frozen :
              /\ person_agents'[i] = person_agents[i]
              /\ Activating(i) => segment_data' = segment_data
              /\ pc' = "idle" =>
                    LET B == PostStepBefore(TheModel, 1, i)
                    IN post_step_person(B, i, world, hazard, sim_time).sd = B.sd]_vars

\* the cursor of evacuee me designates an existing segment of a route of
\* at least 2 nodes, with a progress fraction in [0, 1)
CursorWithinBounds(me) ==
    /\ Len(me.route) >= 2
    /\ me.route_idx >= 0
    /\ me.route_idx < Len(me.route) - 1
    /\ me.segment_progress[1] >= 0
    /\ ~RGeqOne(me.segment_progress)

\* C20: between steps an evacuee is evacuating if and only if its route has
\* at least 2 nodes and its cursor is within bounds.
C20_EvacuatingIffCursor ==
    BetweenSteps =>
        \A i \in Persons :
            person_agents[i].state = "evacuating"
                <=> CursorWithinBounds(person_agents[i])

\* PersonAgent.step as a whole for evacuee i: the movement and, on the
\* branch that reaches it, the agent-level hazard check
whole_person_step(M, i, w, hz, now) ==
    IF StepBranch(M.persons[i], w) = "advance"
    THEN person_hazard_check(person_step(M, i, w), i, hz, now)
    ELSE person_step(M, i, w)

\* schedule.step(): the evacuees activated in the order order[k], order[k+1], ...
RECURSIVE schedule_step(_, _, _, _, _, _)
schedule_step(M, order, k, w, hz, now) ==
    IF k > Len(order) THEN M
    ELSE schedule_step(whole_person_step(M, order[k], w, hz, now),
                       order, k + 1, w, hz, now)

\* the activation orders of the evacuees
ActivationOrders ==
    {o \in [Persons -> Persons] : \A a, b \in Persons : o[a] = o[b] => a = b}

\* the movement phase of a tick is about to begin
PhaseBegins == pc = "agents" /\ activated = {} /\ checking = 0

\* C21: the outcome of the movement phase does not depend on the activation
\* order: from the same pre-tick state any two orders give each evacuee the
\* same state, segment index and progress and each segment the same density.
C21_OrderIndependent ==
    PhaseBegins =>
        \A o1, o2 \in ActivationOrders :
            LET A == schedule_step(TheModel, o1, 1, world, hazard, sim_time)
                B == schedule_step(TheModel, o2, 1, world, hazard, sim_time)
            IN /\ \A i \in Persons :
                     /\ A.persons[i].state = B.persons[i].state
                     /\ A.persons[i].route_idx = B.persons[i].route_idx
                     /\ A.persons[i].segment_progress = B.persons[i].segment_progress
               /\ \A key \in DOMAIN segment_data :
                     A.sd[key].density = B.sd[key].density

\* the movement phase of a tick has ended and the post-step loop begins
PhaseEnded == pc = "agents" /\ activated = Persons /\ checking = 0

\* the post-step loop, arrived at evacuee i of model B, calls
\* recompute_route_for_person: i is evacuating, the water has not reached it,
\* and the water is imminent or its shelter cannot accept
RerouteAttempted(B, i) ==
    LET me == B.persons[i]
        arrival == get_time_to_inundation(hazard, me.pos)
    IN /\ me.state = "evacuating"
       /\ ~(arrival.known /\ ArrivalLeq(arrival, sim_time))
       /\ \/ arrival.known /\ ArrivalLeq(arrival, sim_time + reroute_threshold_s)
          \/ /\ me.evac_center_id # NoId
             /\ me.evac_center_id \in DOMAIN B.evacs
             /\ ~can_accept(B.evacs[me.evac_center_id])

RECURSIVE SumDensity(_, _)
SumDensity(sd, keys) ==
    IF keys = {} THEN 0
    ELSE LET key == CHOOSE x \in keys : TRUE
         IN sd[key].density + SumDensity(sd, keys \ {key})

\* C22: a successful reroute replaces the route, sets the segment index and
\* the progress to 0, takes one from the density of the segment occupied
\* before and adds one to the density of the first segment of the new
\* route, and leaves the sum of the densities and the state unchanged.
C22_RerouteMovesOccupancy ==
    PhaseEnded =>
        \A i \in Persons :
            LET B == PostStepBefore(TheModel, 1, i)
                R == recompute_route_for_person(B, i, world)
                old == current_segment(B.persons[i])
                new == current_segment(R.persons[i])
            IN (RerouteAttempted(B, i) /\ R # B) =>
                  /\ R.persons[i].state = "evacuating"
                  /\ R.persons[i].route_idx = 0
                  /\ R.persons[i].segment_progress = <<0, 1>>
                  /\ Len(R.persons[i].route) >= 2
                  /\ SumDensity(R.sd, DOMAIN R.sd) = SumDensity(B.sd, DOMAIN B.sd)
                  /\ (old[1] # 0 /\ SegKey(old[1], old[2]) # SegKey(new[1], new[2])) =>
                        /\ get_density(R.sd, old[1], old[2])
                              = get_density(B.sd, old[1], old[2]) - 1
                        /\ get_density(R.sd, new[1], new[2])
                              = get_density(B.sd, new[1], new[2]) + 1

C24_PositionOnCurrentSegment ==
    checking # 0 =>
        LET me == person_agents[checking] IN
        (me.state = "evacuating" /\ me.route_idx < Len(me.route) - 1) =>
            me.pos = interpolate(Coord(world, RouteAt(me, me.route_idx)),
                                 Coord(world, RouteAt(me, me.route_idx + 1)),
                                 Clamp01(me.segment_progress))

\* C25: the update of an evacuee whose current segment has length 0 moves
\* the cursor to the following segment and still spends the whole budget of
\* the tick there: when the following segment is longer than the budget,
\* the progress after the update is speed * multiplier * tick / length.
C25_ZeroLengthCostsNothing ==
    (pc = "agents" /\ checking = 0) =>
        \A i \in Persons \ activated :
            StepBranch(person_agents[i], world) = "hop" =>
                LET me == person_agents[i]
                    after == person_step(TheModel, i, world).persons[i]
                    a == RouteAt(me, me.route_idx + 1)
                    following == me.route_idx + 1 < Len(me.route) - 1
                    b == RouteAt(me, me.route_idx + 2)
                    len == segment_length_m(world, a, b)
                    m == IF TheModel.cong
                         THEN get_speed_multiplier(
                                 person_step(TheModel, i, world).sd, a, b)
                         ELSE <<1, 1>>
                IN /\ after.route_idx >= me.route_idx + 1
                   /\ (following
                          /\ speed * m[1] * step_time_seconds < m[2] * len) =>
                         /\ after.route_idx = me.route_idx + 1
                         /\ after.segment_progress =
                               Norm(<<speed * m[1] * step_time_seconds,
                                      m[2] * len>>)

(***************************************************************************)
(* One simulation stepped again and again (app.py: start_simulation once,  *)
(* then simulation_step repeatedly).  World 11 puts nine evacuees on one   *)
(* segment of capacity 8.                                                  *)
(***************************************************************************)
LiveWorlds == (Worlds \ {7}) \cup {11, 13}
MaxPersons == 9

InitLive == Init

\* start_simulation while no simulation is installed
start_once(w, pop_limit) ==
    /\ SIM_MODEL = "None"
    /\ start_simulation(w, pop_limit)

NextLive ==
    \/ \E w \in LiveWorlds, pop_limit \in PopulationLimits : start_once(w, pop_limit)
    \/ StepClock
    \/ \E i \in Persons : AgentStep(i)
    \/ AgentHazardCheck
    \/ PostStep

\* the control flow of a tick alone: which part of EvacuationModel.step runs
\* next.  Every step of NextLive after the start is a step of Schedule that
\* changes <<pc, activated, checking>>, and Schedule is enabled exactly
\* where such a step is.
Schedule ==
    \/ /\ pc = "idle" /\ SIM_MODEL = "model" /\ sim_time < MaxTime
       /\ pc' = "agents" /\ activated' = {} /\ checking' = checking
    \/ /\ pc = "agents" /\ checking = 0
       /\ \E i \in Persons \ activated :
             \/ checking' = i /\ activated' = activated
             \/ checking' = 0 /\ activated' = activated \cup {i}
       /\ pc' = pc
    \/ /\ pc = "agents" /\ checking # 0
       /\ checking' = 0 /\ activated' = activated \cup {checking} /\ pc' = pc
    \/ /\ pc = "agents" /\ checking = 0 /\ activated = Persons
       /\ pc' = "idle" /\ activated' = {} /\ checking' = checking

\* a step that was requested runs to its end, and steps keep being requested
SpecLive ==
    InitLive /\ [][NextLive]_vars /\ WF_<<pc, activated, checking>>(Schedule)

\* C26: under repeated steps every evacuating evacuee eventually is safe,
\* overtaken or stuck; where the hazard has no source, every evacuee with a
\* route eventually is safe, however many evacuees share a segment.
C26_EventuallyTerminal ==
    \A i \in 1..MaxPersons :
        /\ (i \in Persons /\ person_agents[i].state = "evacuating")
              ~> (i \in Persons /\ person_agents[i].state \in Terminal)
        /\ (i \in Persons /\ Len(hazard.source_points) = 0
                          /\ Len(person_agents[i].route) >= 2)
              ~> (i \in Persons /\ person_agents[i].state = "safe")

\* nine evacuees shared a segment of capacity 8 and all are safe, two ticks
\* later than an empty road would have allowed
C26_Witness ==
    /\ world = 11 /\ pc = "idle" /\ sim_time = 4
    /\ Len(person_agents) = MaxPersons
    /\ \A i \in Persons : person_agents[i].state = "safe"
    /\ \E i \in Persons : person_agents[i].segment_progress = <<1, 9>>

\* C27: when the nearest nodes of start and end are connected, the route is
\* a sequence of nodes from the node nearest to start to the node nearest
\* to end, consecutive nodes are joined by an edge, and no path between the
\* two nodes has a smaller total weight.
C27_ShortestRoute ==
    ret.fn = "compute_shortest_route" =>
        LET start_node == nearest_node(world, ret.args[1])
            end_node == nearest_node(world, ret.args[2])
            path == ret.value.path
        IN (Nodes(world) # {} /\ SimplePaths(world, <<start_node>>, end_node) # {}) =>
              /\ ~ret.value.raised
              /\ Len(path) >= 1
              /\ path[1] = start_node
              /\ path[Len(path)] = end_node
              /\ \A k \in 1..(Len(path) - 1) : Adjacent(world, path[k], path[k + 1])
              /\ \A o \in SimplePaths(world, <<start_node>>, end_node) :
                    PathWeight(world, path, 1) <= PathWeight(world, o, 1)

\* on the network with a cycle the route takes the short side (2.8 m) and
\* not the way around (5.6 m)
C27_Witness ==
    /\ Routed(12)
    /\ ret.args = <<<<0, 0, 1>>, <<300, 0, 1>>>>
    /\ ret.value.path = <<1, 2, 3>>
    /\ <<1, 4, 5, 3>> \in SimplePaths(12, <<1>>, 3)

\* C28: enter_segment, leave_segment and get_speed_multiplier called for a
\* segment that was never registered leave the segment data as it is (no
\* entry is created, no registered density changes), and the multiplier
\* returned is 1.
C28_UnregisteredIsNoOp ==
    [][(/\ ret'.fn \in {"enter_segment", "leave_segment", "get_speed_multiplier"}
        /\ SegKey(ret'.args[1], ret'.args[2]) \notin DOMAIN segment_data)
         => /\ segment_data' = segment_data
            /\ ret'.fn = "get_speed_multiplier" => ret'.value = <<1, 1>>]_vars

\* enter_segment was called for a segment that is not registered while
\* another segment is registered and occupied
C28_Witness ==
    /\ ret.fn = "enter_segment"
    /\ SegKey(ret.args[1], ret.args[2]) \notin DOMAIN segment_data
    /\ \E key \in DOMAIN segment_data : segment_data[key].density > 0

\* C29: between steps the occupant count of every shelter is at most the
\* number of evacuees that are safe and assigned to that shelter.
C29_OccupantsAreSafeEvacuees ==
    BetweenSteps =>
        \A e \in DOMAIN evac_agents :
            evac_agents[e].occupants
               <= Cardinality({i \in Persons :
                                 /\ person_agents[i].state = "safe"
                                 /\ person_agents[i].evac_center_id = e})

\* C30: after a successful start no evacuee is idle: each one is evacuating
\* with a route of at least 2 nodes and an assigned shelter, or is stuck.
C30_NobodyIdleAfterStart ==
    (ret.fn = "start" /\ ret.value = "started") =>
        \A i \in Persons :
            LET me == person_agents[i] IN
            \/ /\ me.state = "evacuating"
               /\ Len(me.route) >= 2
               /\ me.evac_center_id \in DOMAIN evac_agents
            \/ me.state = "stuck"

\* the body of the post-step loop for one evacuee with both reroute triggers
\* (model.py:277-288) left out: the overtaken check and the cleanup remain
post_step_person_no_reroute(M, i, w, hz, now) ==
    LET me == M.persons[i]
        arrival == get_time_to_inundation(hz, me.pos)
        cleanup(X) == IF X.persons[i].state \in Terminal THEN LeaveCurrent(X, i) ELSE X
    IN IF me.state = "evacuating" /\ arrival.known /\ ArrivalLeq(arrival, now)
       THEN _become_overtaken(M, i)
       ELSE cleanup(M)

\* evacuee i moving along its route from time t to time until, one tick at
\* a time, without any reroute
RECURSIVE walk_without_reroute(_, _, _, _, _, _)
walk_without_reroute(M, i, w, hz, t, until) ==
    IF t >= until THEN M
    ELSE LET now == t + step_time_seconds
             moved == whole_person_step(M, i, w, update(hz, now), now)
         IN walk_without_reroute(
               post_step_person_no_reroute(moved, i, w, update(hz, now), now),
               i, w, hz, now, until)

\* the model as start_simulation built it for the evacuees now present
ModelAtStart == EvacuationModel(world, Len(person_agents))

\* C31: an evacuee that, moving along the route it was given at the start
\* without any reroute, is safe by now, is not overtaken in the run with the
\* reroute policy.
C31_RerouteKeepsArrival ==
    (BetweenSteps /\ Len(person_agents) >= 1) =>
        \A i \in Persons :
            walk_without_reroute(ModelAtStart, i, world, hazard, 0, sim_time)
                  .persons[i].state = "safe"
               => person_agents[i].state # "overtaken"

====
